---- MODULE Spec2Model ----
(***************************************************************************)
(* Model of poetry-dependencies-checker.                                   *)
(*                                                                         *)
(*   src/test_poetry_dependencies.py  the freshness check: Dependency,     *)
(*                                    Dependency.load, locked_versions,    *)
(*                                    test_dependencies                    *)
(*   src/check-dependencies.py        the wrapper: main and its helpers    *)
(*                                                                         *)
(* Strings whose characters the code inspects (names, version constraints)  *)
(* are sequences of one-character strings.  A packaging Version is a        *)
(* record of its release tuple, its pre-release segment and its local       *)
(* segment.                                                                 *)
(***************************************************************************)
EXTENDS Integers, Sequences, FiniteSets, TLC

VARIABLES
    pyproject,      \* pyproject.toml: the entries of tool.poetry.dependencies, in file order
    load_pos,       \* Dependency.load: number of manifest entries the generator has consumed
    load_state,     \* Dependency.load: "running" | "exhausted" | "raised"
    load_warnings,  \* names passed to warnings.warn by Dependency.load, in order
    params,         \* the Dependency tuples yielded so far, in order
    collected,      \* whether pytest has turned params into test cases
    poetry_lock,    \* poetry.lock: whether it can be read, and its package entries
    prereleases,    \* how the installed packaging treats a pre-release candidate
    results,        \* one record per finished test_dependencies call, in run order
    pc,             \* main(): position in the wrapper
    env,            \* main(): what the host gives the wrapper (runtime, flags, tools, network)
    exit_code,      \* main(): the process exit code, None while running
    io_error,       \* main(): the IOError its except clause caught, None if none
    engine_runs     \* main(): how many times _run_tests started the test engine

vars == << pyproject, load_pos, load_state, load_warnings, params, collected,
           poetry_lock, prereleases, results, pc, env, exit_code, io_error,
           engine_runs >>

loadVars == << pyproject, load_pos, load_state, load_warnings >>
mainVars == << pc, env, exit_code, io_error, engine_runs >>
testVars == << params, collected, poetry_lock, prereleases, results >>

None == "None"

----------------------------------------------------------------------------
(* Bounds of the model.                                                    *)

MaxMajor == 2
MaxMinor == 5
MaxMicro == 1
MaxEntries == 3
MaxReturnCode == 2
MaxPyMinor == 7

----------------------------------------------------------------------------
(* Strings.                                                                *)

UpperCase == << "A", "B", "F", "H", "N", "O", "P", "R", "T", "Y" >>
LowerCase == << "a", "b", "f", "h", "n", "o", "p", "r", "t", "y" >>

Digits == { "0", "1", "2", "3", "4", "5", "6", "7", "8", "9" }

\* str.lower() on one character
lower_char(c) ==
    IF \E i \in 1..Len(UpperCase) : UpperCase[i] = c
    THEN LowerCase[CHOOSE i \in 1..Len(UpperCase) : UpperCase[i] = c]
    ELSE c

\* str.lower()
lower(s) == [i \in 1..Len(s) |-> lower_char(s[i])]

\* str.isdigit(): false for the empty string
isdigit(s) == Len(s) > 0 /\ \A i \in 1..Len(s) : s[i] \in Digits

\* str.split(sep) for a one-character separator: always at least one part
RECURSIVE split(_, _)
split(s, sep) ==
    IF \A i \in 1..Len(s) : s[i] # sep
    THEN << s >>
    ELSE LET k == CHOOSE i \in 1..Len(s) :
                      s[i] = sep /\ \A j \in 1..(i - 1) : s[j] # sep
         IN  << SubSeq(s, 1, k - 1) >> \o split(SubSeq(s, k + 1, Len(s)), sep)

----------------------------------------------------------------------------
(* packaging.version.Version and packaging.specifiers.SpecifierSet, as far *)
(* as test_dependencies uses them.                                         *)

\* Version(...): release tuple, pre-release segment (None for a final release)
\* and local segment (None when absent)
Version(release, pre, local) == [release |-> release, pre |-> pre, local |-> local]

\* Version.major / Version.minor: missing release components read as 0
major(v) == IF Len(v.release) >= 1 THEN v.release[1] ELSE 0
minor(v) == IF Len(v.release) >= 2 THEN v.release[2] ELSE 0

is_prerelease(v) == v.pre # None

\* Version.public: the version without its local segment
public(v) == Version(v.release, v.pre, None)

\* the release tuple with its trailing zeros dropped, as in Version's sort key
RECURSIVE strip_trailing_zeros(_)
strip_trailing_zeros(r) ==
    IF Len(r) > 0 /\ r[Len(r)] = 0
    THEN strip_trailing_zeros(SubSeq(r, 1, Len(r) - 1))
    ELSE r

\* Python's ordering of tuples of integers
RECURSIVE tuple_lt(_, _)
tuple_lt(a, b) ==
    IF Len(a) = 0 THEN Len(b) > 0
    ELSE IF Len(b) = 0 THEN FALSE
    ELSE IF a[1] # b[1] THEN a[1] < b[1]
    ELSE tuple_lt(Tail(a), Tail(b))

\* a final release sorts after its pre-releases; a local segment sorts after none
pre_rank(v) == IF v.pre = None THEN 1 ELSE 0
local_rank(v) == IF v.local = None THEN 0 ELSE 1

cmpkey(v) == << strip_trailing_zeros(v.release), pre_rank(v), local_rank(v) >>

\* variant: equality that looks at the release tuple only
version_eq_release_only(a, b) ==
    strip_trailing_zeros(a.release) = strip_trailing_zeros(b.release)

version_eq(a, b) == cmpkey(a) = cmpkey(b)

version_lt(a, b) ==
    LET ka == cmpkey(a)
        kb == cmpkey(b)
    IN  \/ tuple_lt(ka[1], kb[1])
        \/ ka[1] = kb[1] /\ ka[2] < kb[2]
        \/ ka[1] = kb[1] /\ ka[2] = kb[2] /\ ka[3] < kb[3]

\* variant: a specifier that keeps the major component only
latest_version_specifier_major_only(available_version) ==
    [operator |-> ">=",
     version  |-> Version(<< major(available_version) >>, None, None)]

\* SpecifierSet(f">={available_version.major}.{available_version.minor}"):
\* the text keeps two release components and nothing else of the version
latest_version_specifier(available_version) ==
    [operator |-> ">=",
     version  |-> Version(<< major(available_version), minor(available_version) >>,
                          None, None)]

\* Specifier.prereleases: a ">=" specifier admits pre-releases by itself only
\* when its own version is one
specifier_prereleases(spec) == is_prerelease(spec.version)

\* variant: ">" in place of ">="
compare_greater_than(spec, item) == version_lt(spec.version, public(item))

\* variant: "<=" in place of ">="
compare_less_than_equal(spec, item) == ~version_lt(spec.version, public(item))

\* the ">=" comparison: the candidate's public version against the specifier's
compare_greater_than_equal(spec, item) == ~version_lt(public(item), spec.version)

\* The two treatments of a pre-release candidate a packaging release can give
\* SpecifierSet.contains(item) with prereleases left unset.
Strict == "strict"      \* a pre-release is rejected unless the specifier admits them
Fallback == "fallback"  \* a sole pre-release candidate is accepted when it compares
PrereleaseModes == { Strict, Fallback }

\* SpecifierSet.contains(item) for a one-specifier set
contains(spec, item, mode) ==
    IF mode = Strict /\ ~specifier_prereleases(spec) /\ is_prerelease(item)
    THEN FALSE
    ELSE compare_greater_than_equal(spec, item)

----------------------------------------------------------------------------
(* Dependency and the locked_versions fixture.                             *)

Dependency(name, version_constraint) ==
    [name |-> name, version_constraint |-> version_constraint]

\* Dependency.is_frozen
is_frozen(self) ==
    LET parts == split(self.version_constraint, ".")
    IN  Len(parts) = 3 /\ \A i \in 1..Len(parts) : isdigit(parts[i])

\* the dict comprehension of locked_versions: a later package replaces an
\* earlier one with the same lowercased name
locked_versions(lock) ==
    LET keys == { lower(lock[i].name) : i \in 1..Len(lock) }
        last(k) == CHOOSE i \in 1..Len(lock) :
                       /\ lower(lock[i].name) = k
                       /\ \A j \in (i + 1)..Len(lock) : lower(lock[j].name) # k
    IN  [k \in keys |-> lock[last(k)].version]

----------------------------------------------------------------------------
(* test_dependencies: one parametrized test call.                          *)

\* stands where a version was never obtained
NoVersion == Version(<< >>, None, None)

\* poetry.lock on disk
LockFile(package) == [exists |-> TRUE, package |-> package]
NoFile == [exists |-> FALSE, package |-> << >>]

\* what get_latest_version ends with: a parsed info.version, or an exception
\* from urlopen or from reading the payload
Fetched(version) == [ok |-> TRUE, version |-> version]
NetFail == [ok |-> FALSE, version |-> NoVersion]

Result(outcome, raised, warned, printed, locked, available) ==
    [outcome |-> outcome, raised |-> raised, warned |-> warned, printed |-> printed,
     locked_version |-> locked, available_version |-> available]

\* variant: the staleness assertion placed before the frozen check
check_versions_assert_first(dependency, locked_version, available_version, mode) ==
    IF ~contains(latest_version_specifier(available_version), locked_version, mode)
    THEN Result("Raised", "AssertionError", FALSE, FALSE, locked_version, available_version)
    ELSE IF is_frozen(dependency)
    THEN Result("Skipped", None, FALSE, FALSE, locked_version, available_version)
    ELSE IF ~version_eq(locked_version, available_version)
    THEN Result("Passed", None, TRUE, FALSE, locked_version, available_version)
    ELSE Result("Passed", None, FALSE, TRUE, locked_version, available_version)

\* the body after both versions are known
check_versions(dependency, locked_version, available_version, mode) ==
    IF is_frozen(dependency)
    THEN Result("Skipped", None, FALSE, FALSE, locked_version, available_version)
    ELSE IF ~contains(latest_version_specifier(available_version), locked_version, mode)
    THEN Result("Raised", "AssertionError", FALSE, FALSE, locked_version, available_version)
    ELSE IF ~version_eq(locked_version, available_version)
    THEN Result("Passed", None, TRUE, FALSE, locked_version, available_version)
    ELSE Result("Passed", None, FALSE, TRUE, locked_version, available_version)

\* variant: the lookup without .lower()
lookup_locked_as_written(dependency, lock, available_version, mode) ==
    LET key == dependency.name
        locked == locked_versions(lock.package)
    IN  IF key \notin DOMAIN locked
        THEN Result("Raised", "KeyError", FALSE, FALSE, NoVersion, available_version)
        ELSE check_versions(dependency, locked[key], available_version, mode)

\* the lookup locked_versions[dependency.name.lower()]
lookup_locked(dependency, lock, available_version, mode) ==
    LET key == lower(dependency.name)
        locked == locked_versions(lock.package)
    IN  IF key \notin DOMAIN locked
        THEN Result("Raised", "KeyError", FALSE, FALSE, NoVersion, available_version)
        ELSE check_versions(dependency, locked[key], available_version, mode)

\* fixture set-up, then the test body; fetched is what get_latest_version gives
test_dependencies(dependency, lock, fetched, mode) ==
    IF ~lock.exists
    THEN Result("Raised", "FileNotFoundError", FALSE, FALSE, NoVersion, NoVersion)
    ELSE IF ~fetched.ok
    THEN Result("Raised", "URLError", FALSE, FALSE, NoVersion, NoVersion)
    ELSE lookup_locked(dependency, lock, fetched.version, mode)

----------------------------------------------------------------------------
(* Dependency.load: the generator over tool.poetry.dependencies.           *)

\* The values a TOML table can hold under a dependency name.
StrValue(text) == [type |-> "str", text |-> text, keys |-> {}, items |-> << >>]
\* a table: its keys, and the text under "version" when it has that key
TableValue(keys, version) == [type |-> "table", text |-> version, keys |-> keys, items |-> << >>]
\* an array: each item is a table ("table") or a string, given by its text
ArrayValue(items) == [type |-> "array", text |-> << >>, keys |-> {}, items |-> items]
\* an integer, float, boolean or date
ScalarValue == [type |-> "scalar", text |-> << >>, keys |-> {}, items |-> << >>]

Entry(name, version_info) == [name |-> name, version_info |-> version_info]

\* isinstance(version_info, str)
is_str(version_info) == version_info.type = "str"

\* whether Python can evaluate `"version" in version_info`: a scalar is not
\* a container, and the test raises TypeError
supports_in(version_info) == version_info.type \in { "str", "table", "array" }

\* `"version" in version_info` for a table (a key) and for an array (an item)
has_version(version_info) ==
    \/ version_info.type = "table" /\ "version" \in version_info.keys
    \/ version_info.type = "array"
          /\ \E i \in 1..Len(version_info.items) : version_info.items[i] = "version"

\* whether version_info["version"] can be evaluated: an array takes integer
\* indices only, and the subscript raises TypeError
supports_subscript(version_info) == version_info.type = "table"

LoadStepResult(action, version_constraint) ==
    [action |-> action, version_constraint |-> version_constraint]

\* one pass of the for loop of Dependency.load
load_entry(name, version_info) ==
    IF lower(name) = << "p", "y", "t", "h", "o", "n" >>
    THEN LoadStepResult("continue", << >>)
    ELSE IF is_str(version_info)
    THEN LoadStepResult("yield", version_info.text)
    ELSE IF ~supports_in(version_info)
    THEN LoadStepResult("raise", << >>)
    ELSE IF has_version(version_info)
    THEN IF supports_subscript(version_info)
         THEN LoadStepResult("yield", version_info.text)
         ELSE LoadStepResult("raise", << >>)
    ELSE LoadStepResult("warn", << >>)

----------------------------------------------------------------------------
(* Inputs.                                                                 *)

Releases ==
    { << a, b, c >> : a \in 1..MaxMajor, b \in 0..MaxMinor, c \in 0..MaxMicro }

\* what a lock file can record: final releases, release candidates, and either
\* with a local ("+cpu") segment
LockedVersionSet ==
    { Version(r, pre, local) : r \in Releases, pre \in { None, "rc1" },
                               local \in { None, "cpu" } }

\* what the registry can report as info.version (it holds no local versions)
AvailableVersionSet ==
    { Version(r, pre, None) : r \in Releases, pre \in { None, "rc1" } }

V(a, b, c) == Version(<< a, b, c >>, None, None)

Name_foo == << "f", "o", "o" >>
Name_Foo == << "F", "o", "o" >>
Name_FOO == << "F", "O", "O" >>
Name_bar == << "b", "a", "r" >>
Name_Bar == << "B", "a", "r" >>
Name_python == << "p", "y", "t", "h", "o", "n" >>
Name_Python == << "P", "y", "t", "h", "o", "n" >>
Name_PYTHON == << "P", "Y", "T", "H", "O", "N" >>

Caret_2_0 == << "^", "2", ".", "0" >>                 \* "^2.0"
Pin_1_4_2 == << "1", ".", "4", ".", "2" >>            \* "1.4.2"
Pin_10_0_12 == << "1", "0", ".", "0", ".", "1", "2" >> \* "10.0.12"
Two_2_0 == << "2", ".", "0" >>                         \* "2.0"
Four_1_4_2_0 == << "1", ".", "4", ".", "2", ".", "0" >> \* "1.4.2.0"
Gap_1__2 == << "1", ".", ".", "2" >>                   \* "1..2"
Star_1_4 == << "1", ".", "4", ".", "*" >>             \* "1.4.*"

Constraints ==
    { Caret_2_0, Pin_1_4_2, Pin_10_0_12, Two_2_0, Four_1_4_2_0, Gap_1__2, Star_1_4 }

Package(name, version) == [name |-> name, version |-> version]

----------------------------------------------------------------------------
(* The state before anything runs.                                         *)

IdleLoad ==
    /\ pyproject = << >>
    /\ load_pos = 0
    /\ load_state = "exhausted"
    /\ load_warnings = << >>

IdleTests ==
    /\ params = << >>
    /\ collected = FALSE
    /\ poetry_lock = NoFile
    /\ prereleases = Strict
    /\ results = << >>

\* what the host gives main()
HostEnv(py_major, py_minor, args_ok, custom, no_install, present, install_ok, fetch_ok, launch_ok, returncode) ==
    [py_major          |-> py_major,    \* sys.version_info.major
     py_minor          |-> py_minor,    \* sys.version_info.minor
     args_ok           |-> args_ok,     \* parse_args accepts the command line
     pytest_executable |-> custom,      \* --pytest-executable was given
     no_pytest_install |-> no_install,  \* --no-pytest-install was given
     pytest_present    |-> present,     \* "python -m pytest --version" exits 0
     install_ok        |-> install_ok,  \* "pip install pytest" exits 0
     fetch_ok          |-> fetch_ok,    \* urlopen of the test script succeeds
     launch_ok         |-> launch_ok,   \* the custom executable can be started
     returncode        |-> returncode]  \* what the test engine exits with

IdleMain ==
    /\ pc = "idle"
    /\ env = HostEnv(3, 6, TRUE, FALSE, FALSE, TRUE, TRUE, TRUE, TRUE, 0)
    /\ exit_code = None
    /\ io_error = None
    /\ engine_runs = 0

----------------------------------------------------------------------------
(* One test call: pytest runs the collected cases in order, one at a time, *)
(* each with a freshly built locked_versions fixture and a fresh registry   *)
(* request.                                                                 *)

RunTest(available) ==
    /\ collected
    /\ Len(results) < Len(params)
    /\ \E fetched \in { Fetched(v) : v \in available } \cup { NetFail } :
           results' = Append(results,
                             test_dependencies(params[Len(results) + 1], poetry_lock,
                                               fetched, prereleases))
    /\ UNCHANGED << params, collected, poetry_lock, prereleases, loadVars, mainVars >>

----------------------------------------------------------------------------
(* Spec: a single dependency checked against every lock file and registry   *)
(* answer of the bounded version space.                                     *)

EvalLocks ==
    { NoFile, LockFile(<< >>), LockFile(<< Package(Name_bar, V(1, 0, 0)) >>) }
    \cup { LockFile(<< Package(Name_Foo, v) >>) : v \in LockedVersionSet }

Init ==
    /\ IdleLoad
    /\ IdleMain
    /\ \E name \in { Name_foo, Name_FOO }, constraint \in Constraints :
           params = << Dependency(name, constraint) >>
    /\ collected = TRUE
    /\ poetry_lock \in EvalLocks
    /\ prereleases \in PrereleaseModes
    /\ results = << >>

Next == RunTest(AvailableVersionSet)

Spec == Init /\ [][Next]_vars

----------------------------------------------------------------------------
(* LoadSpec: a whole test session.  Importing the test module runs          *)
(* Dependency.load inside pytest.mark.parametrize; an exception there is a  *)
(* collection error and no test runs.  Otherwise the yielded dependencies   *)
(* become the test cases and run in order.                                  *)

ManifestNames == { Name_python, Name_PYTHON, Name_foo, Name_Bar }

ManifestValues ==
    { StrValue(Caret_2_0), StrValue(Pin_1_4_2),
      TableValue({ "version", "extras" }, Caret_2_0),
      TableValue({ "git" }, << >>),
      ArrayValue(<< "table", "table" >>),
      ScalarValue }

ManifestEntries == { Entry(n, v) : n \in ManifestNames, v \in ManifestValues }

\* the dependency tables of at most MaxEntries entries; a TOML table holds a
\* key once
Manifests ==
    UNION { { m \in [1..n -> ManifestEntries] :
                  \A i, j \in 1..n : i # j => m[i].name # m[j].name }
            : n \in 0..MaxEntries }

SessionLocks ==
    { LockFile(<< Package(Name_foo, V(2, 0, 0)), Package(Name_bar, V(2, 5, 0)) >>),
      LockFile(<< Package(Name_Foo, V(2, 0, 0)) >>) }

SessionAvailable == { V(2, 0, 0), V(2, 5, 0) }

LoadInit ==
    /\ IdleMain
    /\ pyproject \in Manifests
    /\ load_pos = 0
    /\ load_state = "running"
    /\ load_warnings = << >>
    /\ params = << >>
    /\ collected = FALSE
    /\ poetry_lock \in SessionLocks
    /\ prereleases \in PrereleaseModes
    /\ results = << >>

\* the generator resumes and handles the next manifest entry
LoadStep ==
    /\ load_state = "running"
    /\ load_pos < Len(pyproject)
    /\ LET e == pyproject[load_pos + 1]
           step == load_entry(e.name, e.version_info)
       IN  /\ load_pos' = load_pos + 1
           /\ load_state' = IF step.action = "raise" THEN "raised" ELSE "running"
           /\ params' = IF step.action = "yield"
                        THEN Append(params, Dependency(e.name, step.version_constraint))
                        ELSE params
           /\ load_warnings' = IF step.action = "warn"
                               THEN Append(load_warnings, e.name)
                               ELSE load_warnings
    /\ UNCHANGED << pyproject, collected, poetry_lock, prereleases, results, mainVars >>

\* the generator is exhausted: parametrize has its argument values
Collect ==
    /\ load_state = "running"
    /\ load_pos = Len(pyproject)
    /\ load_state' = "exhausted"
    /\ collected' = TRUE
    /\ UNCHANGED << pyproject, load_pos, load_warnings, params, poetry_lock,
                    prereleases, results, mainVars >>

LoadNext ==
    \/ LoadStep
    \/ Collect
    \/ RunTest(SessionAvailable)

LoadSpec == LoadInit /\ [][LoadNext]_vars

----------------------------------------------------------------------------
(* MainSpec: main() of the wrapper.                                        *)

HostEnvs ==
    { HostEnv(a, b, c, d, e, f, g, h, i, rc) :
        a \in { 2, 3, 4 }, b \in 0..MaxPyMinor, c \in BOOLEAN, d \in BOOLEAN,
        e \in BOOLEAN, f \in BOOLEAN, g \in BOOLEAN, h \in BOOLEAN, i \in BOOLEAN,
        rc \in 0..MaxReturnCode }

MainInit ==
    /\ IdleLoad
    /\ IdleTests
    /\ pc = "check_python_version"
    /\ env \in HostEnvs
    /\ exit_code = None
    /\ io_error = None
    /\ engine_runs = 0

\* except IOError as ioe: print, return 1
except_IOError(ioe) ==
    /\ pc' = "done"
    /\ io_error' = ioe
    /\ exit_code' = 1
    /\ UNCHANGED << env, engine_runs >>

Proceed(to) ==
    /\ pc' = to
    /\ UNCHANGED << env, exit_code, io_error, engine_runs >>

\* _check_python_version
CheckPythonVersion ==
    /\ pc = "check_python_version"
    /\ IF env.py_major >= 3 /\ env.py_minor >= 6
       THEN Proceed("setup_arguments")
       ELSE except_IOError("Python 3.6+ is required")
    /\ UNCHANGED << loadVars, testVars >>

\* _setup_arguments: argparse ends the process with status 2 on a bad
\* command line (SystemExit is no IOError)
SetupArguments ==
    /\ pc = "setup_arguments"
    /\ IF env.args_ok
       THEN Proceed("ensure_pytest")
       ELSE /\ pc' = "done"
            /\ exit_code' = 2
            /\ UNCHANGED << env, io_error, engine_runs >>
    /\ UNCHANGED << loadVars, testVars >>

\* _ensure_pytest
EnsurePytest ==
    /\ pc = "ensure_pytest"
    /\ IF env.pytest_executable THEN Proceed("test_script")
       ELSE IF env.pytest_present THEN Proceed("test_script")
       ELSE IF env.no_pytest_install
            THEN except_IOError("pytest is not installed and installing it is prohibited")
       ELSE IF env.install_ok THEN Proceed("test_script")
       ELSE except_IOError("Failed to install pytest")
    /\ UNCHANGED << loadVars, testVars >>

\* _test_script up to its yield: URLError is an OSError, which IOError names
TestScript ==
    /\ pc = "test_script"
    /\ IF env.fetch_ok
       THEN Proceed("run_tests")
       ELSE except_IOError("URLError")
    /\ UNCHANGED << loadVars, testVars >>

\* variant: the return statement left out, so main returns None (status 0)
returned_code_dropped(cp_returncode) == 0

\* what _run_tests, and main through the with block, return
returned_code(cp_returncode) == cp_returncode

\* _run_tests and the return through the with block; sys.executable always
\* starts, a custom executable may fail to (an OSError)
RunTests ==
    /\ pc = "run_tests"
    /\ IF env.pytest_executable /\ ~env.launch_ok
       THEN except_IOError("OSError")
       ELSE /\ pc' = "done"
            /\ engine_runs' = engine_runs + 1
            /\ exit_code' = returned_code(env.returncode)
            /\ UNCHANGED << env, io_error >>
    /\ UNCHANGED << loadVars, testVars >>

MainNext ==
    \/ CheckPythonVersion
    \/ SetupArguments
    \/ EnsurePytest
    \/ TestScript
    \/ RunTests

MainSpec == MainInit /\ [][MainNext]_vars

----------------------------------------------------------------------------
(* Vocabulary of the properties, stated without the operators above.       *)

\* exactly "X.Y.Z": three non-empty runs of digits separated by two dots
IsThreeNumericComponents(c) ==
    \E i, j \in 1..Len(c) :
        /\ 1 < i /\ i + 1 < j /\ j < Len(c)
        /\ c[i] = "." /\ c[j] = "."
        /\ \A k \in (1..Len(c)) \ { i, j } : c[k] \in Digits

\* the package entries of the lock file whose name matches, case ignored
LockEntriesFor(d) ==
    { k \in 1..Len(poetry_lock.package) : lower(poetry_lock.package[k].name) = lower(d.name) }

\* the i-th test call ran with both versions in hand
Compared(i) ==
    /\ i \in 1..Len(results)
    /\ results[i].locked_version # NoVersion
    /\ results[i].available_version # NoVersion

\* locked is behind available on the major.minor line
Behind(l, a) ==
    \/ l.release[1] < a.release[1]
    \/ l.release[1] = a.release[1] /\ l.release[2] < a.release[2]

Failed(r) == r.outcome = "Raised" /\ r.raised = "AssertionError"
PassedClean(r) == r.outcome = "Passed" /\ ~r.warned /\ r.printed
PassedWarn(r) == r.outcome = "Passed" /\ r.warned /\ ~r.printed

----------------------------------------------------------------------------
(* Properties of one test call (Spec).                                     *)

\* C1: a dependency whose constraint is not pinned and whose locked version
\* is behind the available one on major, or on minor with equal major, ends
\* with AssertionError: never passed, never skipped.
C1_StaleFails ==
    \A i \in 1..Len(results) :
        ( /\ Compared(i)
          /\ ~IsThreeNumericComponents(params[i].version_constraint)
          /\ Behind(results[i].locked_version, results[i].available_version) )
        => Failed(results[i])

C1_Witness ==
    /\ Compared(1)
    /\ params[1].version_constraint = Caret_2_0
    /\ results[1].locked_version = V(1, 5, 1)
    /\ results[1].available_version = V(2, 0, 0)
    /\ Failed(results[1])

\* C2: a dependency whose constraint is exactly X.Y.Z (digits) ends Skipped
\* whatever its locked and available versions are.
C2_PinnedSkipped ==
    \A i \in 1..Len(results) :
        ( Compared(i) /\ IsThreeNumericComponents(params[i].version_constraint) )
        => ( results[i].outcome = "Skipped" /\ results[i].raised = None
             /\ ~results[i].warned )

C2_Witness ==
    /\ Compared(1)
    /\ params[1].version_constraint = Pin_10_0_12
    /\ Behind(results[1].locked_version, results[1].available_version)
    /\ results[1].outcome = "Skipped"

\* C3 as claimed: for all dependencies, locked = available passes with no
\* warning, and locked # available within the accepted major.minor range
\* passes with the warning.
C3_Original ==
    \A i \in 1..Len(results) :
        Compared(i) =>
            LET l == results[i].locked_version
                a == results[i].available_version
            IN  /\ l = a => PassedClean(results[i])
                /\ (l # a /\ ~Behind(l, a)) => PassedWarn(results[i])

\* C3 amended: for a dependency that is not pinned and whose locked version
\* is a final release, locked = available passes with no warning, and
\* locked # available with locked not behind on major.minor passes with
\* exactly the newer-version warning.
C3_PassCleanOrWarn ==
    \A i \in 1..Len(results) :
        ( /\ Compared(i)
          /\ ~IsThreeNumericComponents(params[i].version_constraint)
          /\ results[i].locked_version.pre = None )
        => LET l == results[i].locked_version
               a == results[i].available_version
           IN  /\ l = a => PassedClean(results[i])
               /\ (l # a /\ ~Behind(l, a)) => PassedWarn(results[i])

C3_Witness ==
    /\ Compared(1)
    /\ params[1].version_constraint = Caret_2_0
    /\ results[1].locked_version = Version(<< 2, 5, 0 >>, None, "cpu")
    /\ results[1].available_version = V(2, 5, 0)
    /\ PassedWarn(results[1])

\* C4 as claimed: a non-pinned dependency does not fail whenever locked's
\* (major, minor) is at least available's, pre-release variants included.
C4_Original ==
    \A i \in 1..Len(results) :
        ( /\ Compared(i)
          /\ ~IsThreeNumericComponents(params[i].version_constraint)
          /\ ~Behind(results[i].locked_version, results[i].available_version) )
        => ~Failed(results[i])

\* C4 amended: a non-pinned dependency does not fail whenever its locked
\* version is a final release whose (major, minor) is at least available's,
\* a lower patch on the same line included.
C4_FinalAtOrAboveLinePasses ==
    \A i \in 1..Len(results) :
        ( /\ Compared(i)
          /\ ~IsThreeNumericComponents(params[i].version_constraint)
          /\ results[i].locked_version.pre = None
          /\ ~Behind(results[i].locked_version, results[i].available_version) )
        => results[i].outcome = "Passed"

C4_Witness ==
    /\ Compared(1)
    /\ params[1].version_constraint = Two_2_0
    /\ results[1].locked_version = V(2, 5, 0)
    /\ results[1].available_version = V(2, 5, 1)
    /\ results[1].outcome = "Passed"

\* C5: when the lowercased name of a dependency is no key of the locked
\* versions, its test call ends with an exception (KeyError once the
\* registry has answered), never passed, skipped or warned; when it is a
\* key, the lookup gives that package's version whatever the letter case of
\* the name in the manifest.
C5_LookupByLowercasedName ==
    \A i \in 1..Len(results) :
        poetry_lock.exists =>
            LET hits == LockEntriesFor(params[i])
                r == results[i]
            IN  /\ hits = {} =>
                       /\ r.outcome = "Raised" /\ ~r.warned /\ ~r.printed
                       /\ r.raised \in { "KeyError", "URLError" }
                       /\ r.available_version # NoVersion => r.raised = "KeyError"
                /\ (hits # {} /\ r.available_version # NoVersion) =>
                       /\ r.raised # "KeyError"
                       /\ \E k \in hits : r.locked_version = poetry_lock.package[k].version

C5_Witness ==
    /\ Len(results) = 1
    /\ params[1].name = Name_FOO
    /\ LockEntriesFor(params[1]) # {}
    /\ results[1].locked_version = V(2, 0, 0)
    /\ results[1].outcome = "Passed"

\* C10 as claimed: constraint "^2.0", locked 2.0.0, available 2.5.0 passes
\* with a warning that 2.5.0 is available.
C10_Original ==
    \A i \in 1..Len(results) :
        ( /\ params[i].version_constraint = Caret_2_0
          /\ results[i].locked_version = V(2, 0, 0)
          /\ results[i].available_version = V(2, 5, 0) )
        => PassedWarn(results[i])

\* C10 amended: constraint "^2.0", locked 2.0.0, available 2.5.0 fails with
\* AssertionError (2.0.0 does not satisfy >=2.5), and no warning is emitted.
C10_ExampleFails ==
    \A i \in 1..Len(results) :
        ( /\ params[i].version_constraint = Caret_2_0
          /\ results[i].locked_version = V(2, 0, 0)
          /\ results[i].available_version = V(2, 5, 0) )
        => ( Failed(results[i]) /\ ~results[i].warned /\ ~results[i].printed )

C10_Witness ==
    /\ Len(results) = 1
    /\ params[1].version_constraint = Caret_2_0
    /\ results[1].locked_version = V(2, 0, 0)
    /\ results[1].available_version = V(2, 5, 0)
    /\ results[1].raised = "AssertionError"

----------------------------------------------------------------------------
(* Properties of main() (MainSpec).                                        *)

\* the runtime is older than Python 3.6
UnsupportedRuntime ==
    env.py_major < 3 \/ (env.py_major = 3 /\ env.py_minor < 6)

\* pytest is missing and cannot be had: installing is disallowed or fails
PytestUnavailable ==
    /\ ~env.pytest_executable
    /\ ~env.pytest_present
    /\ env.no_pytest_install \/ ~env.install_ok

\* one of the listed set-up errors happens on this host
SetupFails ==
    \/ UnsupportedRuntime
    \/ env.args_ok /\ (PytestUnavailable \/ ~env.fetch_ok)

\* nothing stands in the way of starting the test engine
SetupSucceeds ==
    /\ env.py_major = 3 /\ env.py_minor >= 6
    /\ env.args_ok
    /\ ~PytestUnavailable
    /\ env.fetch_ok
    /\ env.pytest_executable => env.launch_ok

\* C6: main() returns the test engine's return code whenever set-up
\* succeeds, and returns 1 on every set-up error (unsupported runtime, pytest
\* missing with install disallowed, pytest install failure, failure to fetch
\* the test script); on a set-up error the test engine is never started.
C6_ExitCode ==
    /\ engine_runs \in { 0, 1 }
    /\ pc # "done" => engine_runs = 0
    /\ pc = "done" =>
           /\ engine_runs = 1 => (exit_code = env.returncode /\ io_error = None)
           /\ io_error # None => (exit_code = 1 /\ engine_runs = 0)
           /\ SetupFails => (io_error # None /\ exit_code = 1 /\ engine_runs = 0)
           /\ SetupSucceeds => (engine_runs = 1 /\ exit_code = env.returncode)

C6_Witness ==
    /\ pc = "done"
    /\ env.returncode = 2
    /\ ~env.pytest_present /\ ~env.install_ok
    /\ io_error = "Failed to install pytest"
    /\ exit_code = 1
    /\ engine_runs = 0

----------------------------------------------------------------------------
(* Properties of a test session (LoadSpec).                                *)

IsPythonName(name) == lower(name) = Name_python

\* a string, or a table with a "version" key
HasUsableConstraint(version_info) ==
    \/ version_info.type = "str"
    \/ version_info.type = "table" /\ "version" \in version_info.keys

\* the dependencies the manifest declares with a usable constraint, python
\* left out, in manifest order
RECURSIVE DeclaredDependencies(_)
DeclaredDependencies(entries) ==
    IF entries = << >> THEN << >>
    ELSE LET e == Head(entries)
         IN  ( IF ~IsPythonName(e.name) /\ HasUsableConstraint(e.version_info)
               THEN << Dependency(e.name, e.version_info.text) >>
               ELSE << >> ) \o DeclaredDependencies(Tail(entries))

\* the session has nothing left to do
SessionOver ==
    \/ load_state = "raised"
    \/ collected /\ Len(results) = Len(params)

Names(deps) == { deps[k].name : k \in 1..Len(deps) }

\* C7 as claimed: each dependency the loader yielded is evaluated exactly
\* once and ends in one terminal outcome, whatever happens to the others.
C7_Original ==
    SessionOver =>
        /\ Len(results) = Len(params)
        /\ \A i \in 1..Len(params) :
               results[i].outcome \in { "Skipped", "Passed", "Raised" }

\* C7, the part that holds: once the loader has run to its end, the test
\* calls never outnumber the cases, the i-th result is what test_dependencies
\* gives for the i-th dependency alone, and the session ends with one result
\* for each.
C7_WhenLoadCompletes ==
    /\ Len(results) <= Len(params)
    /\ Len(results) > 0 => collected
    /\ \A i \in 1..Len(results) :
           \E fetched \in { Fetched(v) : v \in SessionAvailable } \cup { NetFail } :
               results[i] = test_dependencies(params[i], poetry_lock, fetched, prereleases)
    /\ (collected /\ SessionOver) => Len(results) = Len(params)

\* C7, the part that holds: a result, once there, never changes.
C7_ResultsStable ==
    [][\A i \in 1..Len(results) : i \in 1..Len(results') /\ results'[i] = results[i]]_vars

\* C8 as claimed: every consumed entry, python aside, whose value is neither
\* a string nor a table with "version" is warned about by name and not
\* yielded, and the loader never raises.
C8_Original ==
    /\ load_state # "raised"
    /\ \A i \in 1..load_pos :
           ( /\ ~IsPythonName(pyproject[i].name)
             /\ ~HasUsableConstraint(pyproject[i].version_info) )
           => /\ \E k \in 1..Len(load_warnings) : load_warnings[k] = pyproject[i].name
              /\ pyproject[i].name \notin Names(params)

\* C8, the part that holds: a table without "version", and an array with no
\* "version" item, are warned about by name and not yielded.
C8_ContainersWarn ==
    \A i \in 1..load_pos :
        ( /\ ~IsPythonName(pyproject[i].name)
          /\ pyproject[i].version_info.type \in { "table", "array" }
          /\ ~has_version(pyproject[i].version_info) )
        => /\ \E k \in 1..Len(load_warnings) : load_warnings[k] = pyproject[i].name
           /\ pyproject[i].name \notin Names(params)

\* C9 as claimed: python is never yielded in any letter case, and once the
\* loader has ended every other entry with a usable constraint has been
\* yielded exactly once, in manifest order.
C9_Original ==
    /\ \A k \in 1..Len(params) : ~IsPythonName(params[k].name)
    /\ load_state # "running" => params = DeclaredDependencies(pyproject)

\* C9, the part that holds: python is never yielded, and what has been
\* yielded is what the consumed entries declare, in order.
C9_YieldedPrefix ==
    /\ \A k \in 1..Len(params) : ~IsPythonName(params[k].name)
    /\ load_state # "raised" => params = DeclaredDependencies(SubSeq(pyproject, 1, load_pos))

====
